---------------------------- MODULE Spec2Model ----------------------------
(***************************************************************************)
(* A model of src/src/main.rs (Cat Ball Wow): the game area, the two paws, *)
(* the ball and the scores, and the frame loop of main that updates them.  *)
(*                                                                         *)
(* Numbers.  The program computes in f32.  The model computes in fixed     *)
(* point: a length of the 100 x 100 game space is an integer number of     *)
(* 1/750 game units (U units per game unit), so that the paw's shape       *)
(* (20/1.5 x 30/1.5), the ball's base velocity (0.4) and every velocity    *)
(* the ball can take (0.4 + 0.4 * (score + 1) / 100) are whole numbers and *)
(* the ball's arithmetic is exact.  A screen length is an integer number   *)
(* of half pixels, so that halving a whole number of pixels is exact.      *)
(* Where f32 rounds (the paw's acceleration and friction), the model       *)
(* rounds to the nearest unit.  A non-finite f32 (a touch mapped through a *)
(* zero-sized game area) is a value with finite = FALSE, which fails every *)
(* comparison as NaN and the infinities fail the comparisons of the code.  *)
(* scores.score is a u32; the model stops the ball before MaxScore, far    *)
(* below 2^32, so no increment overflows.                                  *)
(***************************************************************************)
EXTENDS Integers, Sequences, FiniteSets, TLC

VARIABLES
    screen,         \* screen_width(), screen_height() of the current frame
    touches,        \* touches() of the current frame: screen x of each touch
    game_area,      \* GameArea.rect
    left_paw,       \* Paw: rect, velocity, paw_side
    right_paw,
    paw_locations,  \* main's local vec![left_paw.rect, right_paw.rect]
    ball,           \* Ball: rect, velocity
    scores,         \* Scores: score, best_score
    pc,             \* the position of main in its loop body
    frames          \* frames completed (bounds the paw specification)

vars == <<screen, touches, game_area, left_paw, right_paw, paw_locations,
          ball, scores, pc, frames>>

----------------------------------------------------------------------------
(* Bounds of the model *)

\* The paw specification stops after this many frames.
MaxFrames == 7

\* The ball specification stops updating the ball once the score reaches this.
MaxScore == 4

----------------------------------------------------------------------------
(* Units and arithmetic *)

\* Model units per game unit.
U == 3 * 250

\* Half pixels per pixel: a screen length of n pixels.
Px(n) == n + n

Abs(a) == IF a < 0 THEN -a ELSE a

\* a / b rounded to the nearest integer (halves away from zero), b > 0.
RoundDiv(a, b) ==
    IF a >= 0 THEN (2 * a + b) \div (2 * b)
    ELSE -((2 * (-a) + b) \div (2 * b))

\* v / 2.0 and 0.5 * v
Half(v) == RoundDiv(v, 2)

----------------------------------------------------------------------------
(* Constants of the program *)

PAW_ACCELERATION == 5

\* PAW_FRICTION = -0.2 as the fraction PAW_FRICTION_NUM / PAW_FRICTION_DEN
PAW_FRICTION_NUM == -2
PAW_FRICTION_DEN == 10

GAME_SHAPE == [x |-> 100 * U, y |-> 100 * U]

\* 20.0 / 1.5 and 30.0 / 1.5
PAW_SHAPE == [x |-> (20 * U * 2) \div 3, y |-> (30 * U * 2) \div 3]

BALL_SHAPE == [x |-> 10 * U, y |-> 10 * U]

\* 0.4
BASE_BALL_VELOCITY == (4 * U) \div 10

----------------------------------------------------------------------------
(* macroquad's Vec2 and Rect, as the program uses them *)

\* Vec2::min_element
MaxElement(v) == IF v.x > v.y THEN v.x ELSE v.y
MinElement(v) == IF v.x < v.y THEN v.x ELSE v.y

\* Rect::center
Center(r) == [x |-> r.x + Half(r.w), y |-> r.y + Half(r.h)]

\* Rect::contains: left and top edges inclusive, right and bottom exclusive
RectContains(r, p) ==
    /\ p.x >= r.x
    /\ p.x < r.x + r.w
    /\ p.y < r.y + r.h
    /\ p.y >= r.y

\* f32::clamp
ClampNone(v, lo, hi) == v
Clamp(v, lo, hi) == IF v < lo THEN lo ELSE IF v > hi THEN hi ELSE v

----------------------------------------------------------------------------
(* GameArea *)

\* Rect::default()
DefaultRect == [x |-> 0, y |-> 0, w |-> 0, h |-> 0]

\* GameArea::update: the rect computed from the screen size
GameAreaRect(screen_size) ==
    LET min_axis == MinElement(screen_size)
    IN  [x |-> Half(screen_size.x) - Half(min_axis),
         y |-> Half(screen_size.y) - Half(min_axis),
         w |-> min_axis,
         h |-> min_axis]

\* GameArea::screen_to_game, x component: ((screen_point - offset) /
\* current_shape) * GAME_SHAPE.  A zero-sized area divides by zero and the
\* result is not finite.
ScreenToGame(area, sx) ==
    IF area.w = 0
    THEN [finite |-> FALSE, x |-> 0]
    ELSE [finite |-> TRUE, x |-> RoundDiv((sx - area.x) * GAME_SHAPE.x, area.w)]

----------------------------------------------------------------------------
(* Paw *)

\* Paw::new
PawNew(paw_side) ==
    [rect |-> [x |-> IF paw_side = "Left" THEN 25 * U
                     ELSE 75 * U - PAW_SHAPE.x,
               y |-> GAME_SHAPE.y - PAW_SHAPE.y,
               w |-> PAW_SHAPE.x,
               h |-> PAW_SHAPE.y],
     velocity |-> [x |-> 0, y |-> 0],
     paw_side |-> paw_side]

\* The predicate of touches.retain: the touch is inside the arena on x and in
\* this paw's half.
RetainAnySide(paw_side, touch) ==
    /\ touch.finite
    /\ touch.x > 0
    /\ touch.x < GAME_SHAPE.x
Retain(paw_side, touch) ==
    /\ touch.finite
    /\ touch.x > 0
    /\ touch.x < GAME_SHAPE.x
    /\ IF paw_side = "Left"
       THEN touch.x < Half(GAME_SHAPE.x)
       ELSE touch.x > Half(GAME_SHAPE.x)

\* PAW_ACCELERATION / (1.0 / (distance / GAME_SHAPE.x)), in units per frame
AccelOf(distance) == RoundDiv(PAW_ACCELERATION * U * distance, GAME_SHAPE.x)

\* f32::INFINITY, the initial smallest_distance
Infinity == -1

\* The loop over the retained touches, from touch i on, with the loop's two
\* variables.  A touch at the centre lowers smallest_distance and assigns
\* nothing to paw_acceleration.
RECURSIVE TouchLoop(_, _, _, _, _)
TouchLoop(ts, i, center_x, paw_acceleration, smallest_distance) ==
    IF i > Len(ts) THEN paw_acceleration
    ELSE LET tx == ts[i].x
             distance == Abs(tx - center_x)
         IN  IF smallest_distance = Infinity \/ distance < smallest_distance
             THEN TouchLoop(ts, i + 1, center_x,
                            IF tx > center_x THEN AccelOf(distance)
                            ELSE IF tx < center_x THEN -AccelOf(distance)
                            ELSE paw_acceleration,
                            distance)
             ELSE TouchLoop(ts, i + 1, center_x, paw_acceleration,
                            smallest_distance)

\* The touches in game units: touches().iter().map(screen_to_game).collect()
GameTouches(area, ts) == [i \in 1..Len(ts) |-> ScreenToGame(area, ts[i])]

\* The touches that apply to this paw
Retained(paw, area, ts) ==
    SelectSeq(GameTouches(area, ts), LAMBDA t : Retain(paw.paw_side, t))

\* paw_acceleration after the loop
TouchAcceleration(paw, area, ts) ==
    TouchLoop(Retained(paw, area, ts), 1, Center(paw.rect).x, 0, Infinity)

\* self.velocity.x * PAW_FRICTION
Friction(vx) == RoundDiv(vx * PAW_FRICTION_NUM, PAW_FRICTION_DEN)

\* Paw::update: the paw after the call
PawUpdated(paw, area, ts) ==
    LET paw_acceleration == TouchAcceleration(paw, area, ts)
                            + Friction(paw.velocity.x)
        velocity == [x |-> paw.velocity.x + paw_acceleration,
                     y |-> paw.velocity.y + paw_acceleration]
        moved == paw.rect.x + (velocity.x + Half(paw_acceleration))
        clamped == IF paw.paw_side = "Left"
                   THEN Clamp(moved, 0, Half(GAME_SHAPE.x) - paw.rect.w)
                   ELSE Clamp(moved, Half(GAME_SHAPE.x),
                              GAME_SHAPE.x - paw.rect.w)
    IN  [paw EXCEPT !.velocity = velocity, !.rect.x = clamped]

----------------------------------------------------------------------------
(* Ball and Scores *)

\* Ball::new
BallNew ==
    [rect |-> [x |-> Half(GAME_SHAPE.x) - Half(BALL_SHAPE.x),
               y |-> Half(GAME_SHAPE.y) - Half(BALL_SHAPE.y),
               w |-> BALL_SHAPE.x,
               h |-> BALL_SHAPE.y],
     velocity |-> [x |-> BASE_BALL_VELOCITY, y |-> BASE_BALL_VELOCITY]]

\* Scores::new
ScoresNew == [score |-> 0, best_score |-> 0]

\* ball_velocity: BASE_BALL_VELOCITY + BASE_BALL_VELOCITY * ((score + 1) / 100)
BallVelocity(score) ==
    BASE_BALL_VELOCITY + RoundDiv(BASE_BALL_VELOCITY * (score + 1), 100)

(* Ball::update works on the ball's rect and velocity and on scores.score;  *)
(* st is the three together, and each step below is one statement of the    *)
(* function, applied in the order of the code.                              *)

\* if self.rect.x < 0.0
LeftWallAtZero(st, ball_velocity) ==
    IF st.rect.x <= 0
    THEN [st EXCEPT !.velocity.x = ball_velocity, !.score = st.score + 1]
    ELSE st
LeftWallAway(st, ball_velocity) ==
    IF st.rect.x < 0
    THEN [st EXCEPT !.velocity.x = -ball_velocity, !.score = st.score + 1]
    ELSE st
LeftWall(st, ball_velocity) ==
    IF st.rect.x < 0
    THEN [st EXCEPT !.velocity.x = ball_velocity, !.score = st.score + 1]
    ELSE st

\* if (self.rect.x + self.rect.w) > GAME_SHAPE.x
RightWall(st, ball_velocity) ==
    IF st.rect.x + st.rect.w > GAME_SHAPE.x
    THEN [st EXCEPT !.velocity.x = -ball_velocity, !.score = st.score + 1]
    ELSE st

\* if self.rect.y < 0.0
TopWall(st, ball_velocity) ==
    IF st.rect.y < 0
    THEN [st EXCEPT !.velocity.y = ball_velocity, !.score = st.score + 1]
    ELSE st

\* The body of the loop over paw_locations, for one paw
PawCheckRecomputed(st, paw_location, ball_velocity) ==
    IF RectContains(st.rect, Center(paw_location))
    THEN [st EXCEPT !.velocity.y = -BallVelocity(st.score),
                    !.score = st.score + 1]
    ELSE st
PawCheck(st, paw_location, ball_velocity) ==
    IF RectContains(st.rect, Center(paw_location))
    THEN [st EXCEPT !.velocity.y = -ball_velocity, !.score = st.score + 1]
    ELSE st

\* for paw_location in paw_locations, from paw i on
RECURSIVE PawLoop(_, _, _, _)
PawLoop(st, paws, i, ball_velocity) ==
    IF i > Len(paws) THEN st
    ELSE PawLoop(PawCheck(st, paws[i], ball_velocity), paws, i + 1,
                 ball_velocity)

\* Check end-game: if self.rect.y > GAME_SHAPE.y
EndGameAtBottomEdge(st) ==
    IF st.rect.y + st.rect.h > GAME_SHAPE.y
    THEN [rect |-> [st.rect EXCEPT
                      !.x = Half(GAME_SHAPE.x) - Half(BALL_SHAPE.x),
                      !.y = Half(GAME_SHAPE.y) - Half(BALL_SHAPE.y)],
          velocity |-> [x |-> BASE_BALL_VELOCITY, y |-> BASE_BALL_VELOCITY],
          score |-> 0]
    ELSE st
EndGameKeepsScore(st) ==
    IF st.rect.y > GAME_SHAPE.y
    THEN [rect |-> [st.rect EXCEPT
                      !.x = Half(GAME_SHAPE.x) - Half(BALL_SHAPE.x),
                      !.y = Half(GAME_SHAPE.y) - Half(BALL_SHAPE.y)],
          velocity |-> [x |-> BASE_BALL_VELOCITY, y |-> BASE_BALL_VELOCITY],
          score |-> st.score]
    ELSE st
EndGame(st) ==
    IF st.rect.y > GAME_SHAPE.y
    THEN [rect |-> [st.rect EXCEPT
                      !.x = Half(GAME_SHAPE.x) - Half(BALL_SHAPE.x),
                      !.y = Half(GAME_SHAPE.y) - Half(BALL_SHAPE.y)],
          velocity |-> [x |-> BASE_BALL_VELOCITY, y |-> BASE_BALL_VELOCITY],
          score |-> 0]
    ELSE st

\* Update position
Integrate(st) ==
    [st EXCEPT !.rect.x = st.rect.x + st.velocity.x,
               !.rect.y = st.rect.y + st.velocity.y]

\* Ball::update: the ball's rect and velocity and scores.score after the call
BallUpdated(b, paws, score) ==
    LET ball_velocity == BallVelocity(score)
        st0 == [rect |-> b.rect, velocity |-> b.velocity, score |-> score]
        st1 == LeftWall(st0, ball_velocity)
        st2 == RightWall(st1, ball_velocity)
        st3 == TopWall(st2, ball_velocity)
        st4 == PawLoop(st3, paws, 1, ball_velocity)
        st5 == EndGame(st4)
    IN  Integrate(st5)

\* Scores::update
ScoresUpdatedToCurrent(s) == [s EXCEPT !.best_score = s.score]
ScoresUpdated(s) ==
    IF s.score > s.best_score THEN [s EXCEPT !.best_score = s.score] ELSE s

----------------------------------------------------------------------------
(* The loop body of main, one action per call.  pc names the call that is   *)
(* next; each action takes the call that follows it in the specification    *)
(* that uses it.                                                            *)

\* The objects main creates before its loop
InitObjects ==
    /\ game_area = DefaultRect
    /\ left_paw = PawNew("Left")
    /\ right_paw = PawNew("Right")
    /\ ball = BallNew
    /\ scores = ScoresNew
    /\ paw_locations = <<>>
    /\ frames = 0

\* game_area.update()
GameAreaUpdate(next) ==
    /\ pc = "game_area.update"
    /\ game_area' = GameAreaRect(screen)
    /\ pc' = next
    /\ UNCHANGED <<screen, touches, left_paw, right_paw, paw_locations, ball,
                   scores, frames>>

\* left_paw.update(&game_area)
LeftPawUpdate(next) ==
    /\ pc = "left_paw.update"
    /\ left_paw' = PawUpdated(left_paw, game_area, touches)
    /\ pc' = next
    /\ UNCHANGED <<screen, touches, game_area, right_paw, paw_locations, ball,
                   scores, frames>>

\* right_paw.update(&game_area)
RightPawUpdate(next) ==
    /\ pc = "right_paw.update"
    /\ right_paw' = PawUpdated(right_paw, game_area, touches)
    /\ pc' = next
    /\ UNCHANGED <<screen, touches, game_area, left_paw, paw_locations, ball,
                   scores, frames>>

\* ball.update(paw_locations, &mut scores); the call consumes paw_locations
BallUpdate(next) ==
    /\ pc = "ball.update"
    /\ LET st == BallUpdated(ball, paw_locations, scores.score)
       IN  /\ ball' = [rect |-> st.rect, velocity |-> st.velocity]
           /\ scores' = [scores EXCEPT !.score = st.score]
    /\ paw_locations' = <<>>
    /\ pc' = next
    /\ UNCHANGED <<screen, touches, game_area, left_paw, right_paw, frames>>

\* scores.update()
ScoresUpdate(next) ==
    /\ pc = "scores.update"
    /\ scores' = ScoresUpdated(scores)
    /\ pc' = next
    /\ UNCHANGED <<screen, touches, game_area, left_paw, right_paw,
                   paw_locations, ball, frames>>

\* next_frame().await: the next frame has its own screen size and touches
NextFrame(sizes, lists, next, count) ==
    /\ pc = "next_frame"
    /\ screen' \in sizes
    /\ touches' \in lists
    /\ frames' = count
    /\ pc' = next
    /\ UNCHANGED <<game_area, left_paw, right_paw, paw_locations, ball, scores>>

----------------------------------------------------------------------------
(* SpecArea: the loop restricted to the game area, over many screen sizes   *)

\* Widths and heights of the window, in pixels
AreaPixels == {0, 1, 150, 299, 300, 301, 400, 500, 640, 800, 1000}

AreaScreenSizes == {[x |-> Px(w), y |-> Px(h)] : w \in AreaPixels, h \in AreaPixels}

InitArea ==
    /\ InitObjects
    /\ screen \in AreaScreenSizes
    /\ touches = <<>>
    /\ pc = "game_area.update"

AreaUpdate == GameAreaUpdate("next_frame")

AreaNextFrame == NextFrame(AreaScreenSizes, {<<>>}, "game_area.update", frames)

NextArea == AreaUpdate \/ AreaNextFrame

SpecArea == InitArea /\ [][NextArea]_vars

----------------------------------------------------------------------------
(* SpecPaw: the loop restricted to the game area and the two paws           *)

\* A square window, and a wide one whose game area starts 100 pixels in
PawScreenSizes == {[x |-> Px(300), y |-> Px(300)], [x |-> Px(500), y |-> Px(300)]}

\* Touches in enumeration order, by screen x.  In the square window pixel 3
\* is game x 1, pixel 95 is the centre of the left paw as created, pixel 297
\* is game x 99.
PawTouchLists == {<<Px(3), Px(95)>>, <<Px(3), Px(297)>>}

InitPaw ==
    /\ InitObjects
    /\ screen \in PawScreenSizes
    /\ touches \in PawTouchLists
    /\ pc = "game_area.update"

PawAreaUpdate == GameAreaUpdate("left_paw.update")

PawLeftUpdate == LeftPawUpdate("right_paw.update")

PawRightUpdate == RightPawUpdate("next_frame")

PawNextFrame ==
    /\ frames < MaxFrames
    /\ NextFrame(PawScreenSizes, PawTouchLists, "game_area.update", frames + 1)

NextPaw == PawAreaUpdate \/ PawLeftUpdate \/ PawRightUpdate \/ PawNextFrame

SpecPaw == InitPaw /\ [][NextPaw]_vars

----------------------------------------------------------------------------
(* SpecBall: the loop restricted to the ball and the scores.  The ball      *)
(* reads the paws only through paw_locations, and the paws stay in their    *)
(* lanes, so the paws are anywhere in their lanes at each frame.            *)

\* rect.x of the paws: the two ends of each lane
LeftPawXs == {0, Half(GAME_SHAPE.x) - PAW_SHAPE.x}

RightPawXs == {Half(GAME_SHAPE.x), GAME_SHAPE.x - PAW_SHAPE.x}

\* let paw_locations = vec![left_paw.rect, right_paw.rect]
PawLocations(next) ==
    /\ pc = "paw_locations"
    /\ \E lx \in LeftPawXs, rx \in RightPawXs :
          paw_locations' = <<[PawNew("Left").rect EXCEPT !.x = lx],
                             [PawNew("Right").rect EXCEPT !.x = rx]>>
    /\ pc' = next
    /\ UNCHANGED <<screen, touches, game_area, left_paw, right_paw, ball,
                   scores, frames>>

InitBall ==
    /\ InitObjects
    /\ screen = [x |-> 0, y |-> 0]
    /\ touches = <<>>
    /\ pc = "paw_locations"

BallPawLocations ==
    /\ scores.score < MaxScore
    /\ PawLocations("ball.update")

BallBallUpdate == BallUpdate("scores.update")

BallScoresUpdate == ScoresUpdate("paw_locations")

NextBall == BallPawLocations \/ BallBallUpdate \/ BallScoresUpdate

SpecBall == InitBall /\ [][NextBall]_vars

----------------------------------------------------------------------------
(* SpecScenario: Ball::update applied once to a ball, a score and the paws  *)
(* as created, over a grid of balls at and around the edges of the arena    *)

ScenarioXs ==
    {-BASE_BALL_VELOCITY, 0, BASE_BALL_VELOCITY, 45 * U, 90 * U,
     90 * U + BASE_BALL_VELOCITY}

ScenarioYs ==
    {-BASE_BALL_VELOCITY, 0, 50 * U, 85 * U, 100 * U,
     100 * U + BASE_BALL_VELOCITY}

ScenarioScores == {0, 1, 7}

InitScenario ==
    /\ game_area = DefaultRect
    /\ left_paw = PawNew("Left")
    /\ right_paw = PawNew("Right")
    /\ frames = 0
    /\ screen = [x |-> 0, y |-> 0]
    /\ touches = <<>>
    /\ \E x \in ScenarioXs, y \in ScenarioYs,
          vx \in {-BASE_BALL_VELOCITY, BASE_BALL_VELOCITY},
          vy \in {-BASE_BALL_VELOCITY, 0, BASE_BALL_VELOCITY} :
          ball = [rect |-> [BallNew.rect EXCEPT !.x = x, !.y = y],
                  velocity |-> [x |-> vx, y |-> vy]]
    /\ \E s \in ScenarioScores : scores = [score |-> s, best_score |-> s]
    /\ paw_locations = <<left_paw.rect, right_paw.rect>>
    /\ pc = "ball.update"

ScenarioBallUpdate == BallUpdate("done")

NextScenario == ScenarioBallUpdate

SpecScenario == InitScenario /\ [][NextScenario]_vars

----------------------------------------------------------------------------
(* The claims *)

\* The lanes of the paws: [0, 50 - width] and [50, 100 - width]
LeftLaneMax == Half(GAME_SHAPE.x) - PAW_SHAPE.x

RightLaneMin == Half(GAME_SHAPE.x)

RightLaneMax == GAME_SHAPE.x - PAW_SHAPE.x

\* C1: after Paw::new and after every Paw::update, whatever the touches, the
\* left paw's rect.x is in [0, 50 - width] and the right paw's rect.x is in
\* [50, 100 - width].
C1_PawsStayInLanes ==
    /\ 0 <= left_paw.rect.x
    /\ left_paw.rect.x <= LeftLaneMax
    /\ RightLaneMin <= right_paw.rect.x
    /\ right_paw.rect.x <= RightLaneMax

\* A paw moving left has been stopped at the left end of its lane.
C1_Witness ==
    \/ left_paw.rect.x = 0 /\ left_paw.velocity.x < 0
    \/ right_paw.rect.x = RightLaneMin /\ right_paw.velocity.x < 0

\* The ball's top edge is past the bottom of the arena: the miss check fires.
TopEdgePastBottom == ball.rect.y > GAME_SHAPE.y

\* C2: in every Ball::update, if the miss check does not fire the score does
\* not decrease, and if the ball's top edge exceeds 100 at the start of the
\* call the score is 0 after it.
C2_ScoreGrowsOrResets ==
    [][pc = "ball.update" =>
        IF TopEdgePastBottom
        THEN scores'.score = 0
        ELSE scores'.score >= scores.score]_vars

\* A miss has just reset a score that bounces had raised above 0.
C2_Witness ==
    /\ pc = "scores.update"
    /\ ball.velocity = BallNew.velocity
    /\ scores.score = 0
    /\ scores.best_score > 0

\* C3: best_score never decreases, and Scores::update leaves it at the
\* maximum of its previous value and the current score.
C3_BestScoreIsRunningMax ==
    [][/\ scores'.best_score >= scores.best_score
       /\ pc = "scores.update" =>
            scores'.best_score = IF scores.score > scores.best_score
                                 THEN scores.score
                                 ELSE scores.best_score]_vars

\* Scores::update has run in a frame whose miss reset the score: the best
\* score stays above the current one.
C3_Witness ==
    /\ pc = "paw_locations"
    /\ scores.score = 0
    /\ scores.best_score > 0

\* The ball at the end of a Ball::update whose miss check fired: reset to
\* (45, 45), 10 x 10, velocity (0.4, 0.4), then moved by that velocity
AfterReset ==
    /\ ball.rect = [BallNew.rect EXCEPT
                      !.x = BallNew.rect.x + BASE_BALL_VELOCITY,
                      !.y = BallNew.rect.y + BASE_BALL_VELOCITY]
    /\ ball.velocity = BallNew.velocity

\* C4: an edge of the ball that is outside the arena on the left, the right
\* or the top at the start of a Ball::update is back inside [0, 100] after
\* it; a ball whose top edge is past the bottom is put back at the centre.
C4_BallReturnsInside ==
    [][pc = "ball.update" =>
        /\ ball.rect.x < 0 =>
             0 <= ball'.rect.x /\ ball'.rect.x <= GAME_SHAPE.x
        /\ ball.rect.x + ball.rect.w > GAME_SHAPE.x =>
             /\ 0 <= ball'.rect.x + ball'.rect.w
             /\ ball'.rect.x + ball'.rect.w <= GAME_SHAPE.x
        /\ ball.rect.y < 0 =>
             0 <= ball'.rect.y /\ ball'.rect.y <= GAME_SHAPE.y
        /\ TopEdgePastBottom => AfterReset']_vars

\* The ball has just come back inside from beyond the left wall: it moves
\* right at a bounce speed and is less than one step from the wall.
C4_Witness ==
    /\ pc = "scores.update"
    /\ ball.velocity.x > BASE_BALL_VELOCITY
    /\ 0 <= ball.rect.x
    /\ ball.rect.x < ball.velocity.x

\* The scenario of C5: the ball at (0, 50) with velocity (-0.4, 0), score 0
C5_Scenario ==
    /\ pc = "ball.update"
    /\ ball.rect.x = 0
    /\ ball.rect.y = 50 * U
    /\ ball.velocity = [x |-> -BASE_BALL_VELOCITY, y |-> 0]
    /\ scores.score = 0

\* 0.404
C5_Speed == (404 * U) \div 1000

\* C5 as stated: from the scenario, one Ball::update sets velocity.x to
\* +0.404 and makes the score 1.
C5_Original ==
    [][C5_Scenario =>
        ball'.velocity.x = C5_Speed /\ scores'.score = 1]_vars

\* C5 as amended: from the scenario the left wall check does not fire (the
\* left edge is 0, not below 0), velocity and score are unchanged and the
\* ball moves to (-0.4, 50); from (-0.4, 50) with the same velocity and
\* score, one Ball::update sets velocity.x to +0.404 and makes the score 1.
C5_BounceOnlyBelowZero ==
    [][/\ C5_Scenario =>
            /\ ball'.velocity = ball.velocity
            /\ scores'.score = 0
            /\ ball'.rect.x = -BASE_BALL_VELOCITY
            /\ ball'.rect.y = 50 * U
       /\ /\ pc = "ball.update"
          /\ ball.rect.x = -BASE_BALL_VELOCITY
          /\ ball.rect.y = 50 * U
          /\ ball.velocity = [x |-> -BASE_BALL_VELOCITY, y |-> 0]
          /\ scores.score = 0
          => /\ ball'.velocity = [x |-> C5_Speed, y |-> 0]
             /\ scores'.score = 1]_vars

\* Ball::update has run on the scenario: the ball is at (-0.4, 50), still
\* moving left at 0.4, and the score is still 0.
C5_Witness ==
    /\ pc = "done"
    /\ ball.rect.x = -BASE_BALL_VELOCITY
    /\ ball.rect.y = 50 * U
    /\ ball.velocity = [x |-> -BASE_BALL_VELOCITY, y |-> 0]
    /\ scores.score = 0

\* C6 as stated: whenever the ball's y + h exceeds 100 at a Ball::update, the
\* ball is at (45, 45), 10 x 10, with velocity (0.4, 0.4), and the score is 0
\* after it.
C6_Original ==
    [][pc = "ball.update" /\ ball.rect.y + ball.rect.h > GAME_SHAPE.y =>
        /\ ball'.rect = BallNew.rect
        /\ ball'.velocity = BallNew.velocity
        /\ scores'.score = 0]_vars

\* C6 as amended: whenever the ball's top edge rect.y exceeds 100 at a
\* Ball::update, the ball is reset to (45, 45), 10 x 10, velocity (0.4, 0.4)
\* and score 0 whatever the score was, and the same call then moves it by
\* that velocity to (45.4, 45.4); while y + h exceeds 100 and y does not, the
\* ball is not reset: it moves on by its velocity and the score does not drop.
C6_ResetWhenTopEdgePastBottom ==
    [][pc = "ball.update" =>
        IF TopEdgePastBottom
        THEN AfterReset' /\ scores'.score = 0
        ELSE /\ ball'.rect.x = ball.rect.x + ball'.velocity.x
             /\ ball'.rect.y = ball.rect.y + ball'.velocity.y
             /\ scores'.score >= scores.score]_vars

\* A miss has just reset the ball, which the same call moved on to
\* (45.4, 45.4), and a score that was above 0.
C6_Witness ==
    /\ pc = "scores.update"
    /\ AfterReset
    /\ scores.score = 0
    /\ scores.best_score >= 1

\* C7: after GameArea::update the rect is a square whose side is the smaller
\* of the window's width and height, centred in the window.
C7_ViewportIsCentredSquare ==
    pc = "next_frame" =>
        /\ game_area.w = game_area.h
        /\ game_area.w <= screen.x
        /\ game_area.w <= screen.y
        /\ game_area.w = screen.x \/ game_area.w = screen.y
        /\ 2 * game_area.x = screen.x - game_area.w
        /\ 2 * game_area.y = screen.y - game_area.w

\* GameArea::update has run on a window wider than high: the square starts
\* to the right of the window's left edge, at its top.
C7_Witness ==
    /\ pc = "next_frame"
    /\ screen.x > screen.y
    /\ screen.y > 0
    /\ game_area.x > 0
    /\ game_area.y = 0
    /\ game_area.w = screen.y

\* A touch, in game units, that C8 says is discarded: in the other paw's
\* half or outside the arena on x
C8_Discarded(paw_side, touch) ==
    /\ touch.finite
    /\ \/ touch.x < 0
       \/ touch.x > GAME_SHAPE.x
       \/ IF paw_side = "Left"
          THEN touch.x >= 50 * U
          ELSE touch.x <= 50 * U

C8_AllDiscarded(paw_side) ==
    \A i \in 1..Len(touches) :
        C8_Discarded(paw_side, ScreenToGame(game_area, touches[i]))

\* C8: when every touch is in the other paw's half or outside the arena on
\* x, Paw::update changes the paw's velocity.x by the friction term alone.
C8_DiscardedTouchesOnlyFriction ==
    [][/\ pc = "left_paw.update" /\ C8_AllDiscarded("Left") =>
            left_paw'.velocity.x =
                left_paw.velocity.x + Friction(left_paw.velocity.x)
       /\ pc = "right_paw.update" /\ C8_AllDiscarded("Right") =>
            right_paw'.velocity.x =
                right_paw.velocity.x + Friction(right_paw.velocity.x)]_vars

\* The right paw, moving, has been updated in a frame whose touches are all
\* discarded for it, one of them in the left half of the arena.
C8_Witness ==
    /\ pc = "next_frame"
    /\ C8_AllDiscarded("Right")
    /\ \E i \in 1..Len(touches) :
          LET t == ScreenToGame(game_area, touches[i])
          IN  t.x > 0 /\ t.x <= 50 * U
    /\ right_paw.velocity.x # 0

\* The first touch of ts with the smallest x-distance to center_x
C9_Nearest(ts, center_x) ==
    CHOOSE i \in 1..Len(ts) :
        \A j \in 1..Len(ts) :
            \/ Abs(ts[i].x - center_x) < Abs(ts[j].x - center_x)
            \/ Abs(ts[i].x - center_x) = Abs(ts[j].x - center_x) /\ i <= j

\* The acceleration towards that touch alone: zero when it is at the centre
C9_NearestAcceleration(ts, center_x) ==
    IF ts = <<>> THEN 0
    ELSE LET tx == ts[C9_Nearest(ts, center_x)].x
         IN  IF tx > center_x THEN AccelOf(tx - center_x)
             ELSE IF tx < center_x THEN -AccelOf(center_x - tx)
             ELSE 0

\* C9 as stated: in Paw::update the touch acceleration is that of the
\* nearest retained touch alone (the first on ties), zero when that touch is
\* at the paw's centre, whatever the other touches and their order.
C9_Original ==
    [][/\ pc = "left_paw.update" =>
            left_paw'.velocity.x =
                left_paw.velocity.x
                + C9_NearestAcceleration(
                      Retained(left_paw, game_area, touches),
                      Center(left_paw.rect).x)
                + Friction(left_paw.velocity.x)
       /\ pc = "right_paw.update" =>
            right_paw'.velocity.x =
                right_paw.velocity.x
                + C9_NearestAcceleration(
                      Retained(right_paw, game_area, touches),
                      Center(right_paw.rect).x)
                + Friction(right_paw.velocity.x)]_vars

\* The number of paws of paw_locations whose centre the ball's rect contains
C10_PawHits ==
    Cardinality({i \in 1..Len(paw_locations) :
                    RectContains(ball.rect, Center(paw_locations[i]))})

\* The number of bounce conditions that hold
C10_Bounces ==
    (IF ball.rect.x < 0 THEN 1 ELSE 0)
    + (IF ball.rect.x + ball.rect.w > GAME_SHAPE.x THEN 1 ELSE 0)
    + (IF ball.rect.y < 0 THEN 1 ELSE 0)
    + C10_PawHits

\* C10: in a Ball::update whose miss check does not fire, the score grows by
\* the number of bounce conditions that hold at the start of the call, and
\* every velocity component the call sets is plus or minus the one speed
\* computed from the score at the start of the call.
C10_IndependentBounces ==
    [][pc = "ball.update" /\ ~TopEdgePastBottom =>
        LET speed == BASE_BALL_VELOCITY
                     + (BASE_BALL_VELOCITY * (scores.score + 1)) \div 100
        IN  /\ scores'.score = scores.score + C10_Bounces
            /\ ball.rect.x < 0 => ball'.velocity.x = speed
            /\ ball.rect.x + ball.rect.w > GAME_SHAPE.x =>
                 ball'.velocity.x = -speed
            /\ C10_PawHits > 0 => ball'.velocity.y = -speed
            /\ ball.rect.y < 0 /\ C10_PawHits = 0 =>
                 ball'.velocity.y = speed]_vars

\* One Ball::update has bounced the ball off a wall and off a paw: both
\* velocity components carry the speed of the score two bounces ago.
C10_Witness ==
    /\ pc = "scores.update"
    /\ scores.score >= 2
    /\ Abs(ball.velocity.x) = BallVelocity(scores.score - 2)
    /\ ball.velocity.y = -BallVelocity(scores.score - 2)

=============================================================================
